---- MODULE Spec2Model ----
(***************************************************************************)
(* pyxcursor: the Xcursor decoder (open_xcursor) and encoder               *)
(* (save_xcursor) of src/pyxcursor/xcursor.py over the Cursor/CursorFrame  *)
(* data holders of src/pyxcursor/cursor.py.                                *)
(*                                                                         *)
(* Bytes are naturals 0..255, a stream is a byte sequence with a position. *)
(* An unsigned 32-bit field read from a file is kept as its two 16-bit     *)
(* halves [hi, lo], so that the chunk type tags 0xfffe0001 and 0xfffd0002  *)
(* are exact; the in-memory integers (width, height, hotspot, duration,    *)
(* stream positions) are naturals.                                         *)
(***************************************************************************)
EXTENDS Integers, Sequences, FiniteSets, TLC

\* ------------------------------------------------------------------ bounds
\* longest frame list handed to save_xcursor
MaxFrames == 2
\* largest image width and height handed to save_xcursor
MaxDim == 2
\* longest table of contents of a hand-built file
MaxToc == 3

\* --------------------------------------------------------------- constants
\* xcursor.py:141  header_size = 16
FileHeaderSize == 16
\* xcursor.py:166  header_size = 36
ChunkHeaderSize == 36
\* xcursor.py:167  chunk_version = 1
ChunkVersion == 1
\* xcursor.py:150  one table entry is 4*3 bytes
TocEntrySize == 12

\* xcursor.py:56   0xfffe0001
COMMENT_TYPE == [hi |-> 65534, lo |-> 1]
\* xcursor.py:58   0xfffd0002
IMAGE_TYPE == [hi |-> 65533, lo |-> 2]
\* b'Xcur'
MAGIC == <<88, 99, 117, 114>>

Min(a, b) == IF a < b THEN a ELSE b
Max(a, b) == IF a > b THEN a ELSE b

\* ------------------------------------------------------------ struct module
\* a natural below 2^31 as an unsigned 32-bit value
ToU32(n) == [hi |-> n \div 65536, lo |-> n % 65536]
\* the natural of an unsigned 32-bit value (below 2^31 in every file built here)
AsInt(u) == u.hi * 65536 + u.lo
\* struct.pack('<I', u): four bytes, least significant first
PackU(u) == <<u.lo % 256, u.lo \div 256, u.hi % 256, u.hi \div 256>>
Pack32(n) == PackU(ToU32(n))
\* struct.unpack('<I', b) of exactly four bytes
Unpack32(b) == [hi |-> b[3] + 256 * b[4], lo |-> b[1] + 256 * b[2]]
\* field k (1-based) of struct.unpack('<II...I', b)
Field(b, k) == Unpack32(SubSeq(b, 4 * k - 3, 4 * k))

\* ------------------------------------------------------------------ streams
\* the bytes of f.read(n): short at end of stream, empty beyond it
ReadBytes(s, n) == SubSeq(s.data, s.pos + 1, Min(s.pos + n, Len(s.data)))
\* the stream after f.read(n)
AfterRead(s, n) == [s EXCEPT !.pos = Max(s.pos, Min(s.pos + n, Len(s.data)))]
\* f.seek(p)
Seek(s, p) == [s EXCEPT !.pos = p]
\* f.write(b): overwrites from the position on and extends the stream
Write(s, b) ==
    LET end == s.pos + Len(b)
        n   == Max(Len(s.data), end)
    IN [data |-> [k \in 1..n |->
                    IF k > s.pos /\ k <= end THEN b[k - s.pos]
                    ELSE IF k <= Len(s.data) THEN s.data[k] ELSE 0],
        pos  |-> end]
\* bytes(n): n zero bytes
Zeros(n) == [k \in 1..n |-> 0]

\* --------------------------------------------------------- numpy and PIL
\* An image is [width, height, px], px the RGBA samples of its pixels in
\* row-major order (pixel (x, y) is px[y*width + x + 1]).  An array is
\* [shape, flat], flat its elements in C order.
RECURSIVE Flatten(_)
Flatten(px) == IF px = <<>> THEN <<>> ELSE Head(px) \o Flatten(Tail(px))
Group4(b) == [k \in 1..(Len(b) \div 4) |-> SubSeq(b, 4 * k - 3, 4 * k)]
\* np.asarray(image, dtype=np.ubyte): shape (height, width, 4)
AsArray(img) == [shape |-> <<img.height, img.width, 4>>, flat |-> Flatten(img.px)]
\* np.stack((a[:,:,2], a[:,:,1], a[:,:,0], a[:,:,3]), axis=2)
SwapChannelsNone(a) == a
SwapChannels(a) ==
    [a EXCEPT !.flat = [k \in 1..Len(a.flat) |->
        LET c == (k - 1) % 4
        IN IF c = 0 THEN a.flat[k + 2] ELSE IF c = 2 THEN a.flat[k - 2] ELSE a.flat[k]]]
\* bytes(a.reshape(-1))
ToBytes(a) == a.flat
\* np.frombuffer(b, np.ubyte)
FromBuffer(b) == [shape |-> <<Len(b)>>, flat |-> b]
\* a.reshape(shape) raises ValueError unless the sizes agree
CanReshapeWholePixels(a, shape) == Len(a.flat) % shape[3] = 0
CanReshape(a, shape) == Len(a.flat) = shape[1] * shape[2] * shape[3]
Reshape(a, shape) == [shape |-> shape, flat |-> a.flat]
\* Image.fromarray(a, 'RGBA'): shape (rows, columns, 4) gives size (columns, rows)
FromArray(a) == [width |-> a.shape[2], height |-> a.shape[1], px |-> Group4(a.flat)]

\* ------------------------------------------------------------- cursor.py
CursorFrame(image, hot_spot, duration) ==
    [image |-> image, hot_spot |-> hot_spot, duration |-> duration]
\* Cursor(frames); frames defaults to None
Cursor(frames) == [none |-> FALSE, frames |-> frames]
CursorDefault == [none |-> TRUE, frames |-> <<>>]
NoCursor == [returned |-> FALSE, frames |-> <<>>]

\* ------------------------------------------------------------------ inputs
\* the RGBA samples of n pixels, all different
MkPixels(n, base) ==
    [k \in 1..n |-> [c \in 1..4 |-> (base + 4 * (k - 1) + c - 1) % 256]]
\* a w x h frame whose content, hotspot and duration are told apart by s
MkFrame(w, h, s) ==
    CursorFrame([width |-> w, height |-> h,
                 px |-> MkPixels(w * h, 61 * s + 17 * w + 5 * h)],
                <<s, 300 * w + h>>,
                IF s = 0 THEN 50 ELSE 70000 * s + w)
\* the 2x1 frame RGBA(10,20,30,255), RGBA(1,2,3,4) with the default hotspot and duration
ExampleFrame ==
    CursorFrame([width |-> 2, height |-> 1, px |-> <<<<10, 20, 30, 255>>, <<1, 2, 3, 4>>>>],
                <<0, 0>>, 50)
Dims == (1..MaxDim) \X (1..MaxDim)
\* frame lists: every sequence of sizes up to MaxFrames long, frame j marked by j
FrameLists ==
    { [j \in 1..Len(d) |-> MkFrame(d[j][1], d[j][2], j - 1)] :
        d \in UNION { [1..n -> Dims] : n \in 0..MaxFrames } }
SaveCursors ==
    { Cursor(fl) : fl \in FrameLists } \cup { Cursor(<<ExampleFrame>>), CursorDefault }

\* A hand-built file: phys lists the chunks in physical order, each [atype, frame]
\* (the type tag in the chunk's own header, and the image record that follows);
\* toc lists the table entries, each [dtype, target] (the declared type tag, and
\* the physical chunk whose start is the entry's offset).
UNKNOWN_TAG == [hi |-> 65533, lo |-> 3]
BgraBytes(img) == Flatten([k \in 1..Len(img.px) |->
                    <<img.px[k][3], img.px[k][2], img.px[k][1], img.px[k][4]>>])
BuiltChunk(c) ==
    Pack32(36) \o PackU(c.atype) \o Pack32(c.frame.image.width) \o Pack32(1)
    \o Pack32(c.frame.image.width) \o Pack32(c.frame.image.height)
    \o Pack32(c.frame.hot_spot[1]) \o Pack32(c.frame.hot_spot[2])
    \o Pack32(c.frame.duration) \o BgraBytes(c.frame.image)
RECURSIVE BuiltOffset(_, _, _)
BuiltOffset(phys, j, n) ==
    IF j = 1 THEN 16 + 12 * n
    ELSE BuiltOffset(phys, j - 1, n) + Len(BuiltChunk(phys[j - 1]))
BuiltFile(toc, phys) ==
    MAGIC \o Pack32(16) \o <<0, 0, 1, 0>> \o Pack32(Len(toc))
    \o Flatten([k \in 1..Len(toc) |->
          PackU(toc[k].dtype) \o Pack32(phys[toc[k].target].frame.image.width)
          \o Pack32(BuiltOffset(phys, toc[k].target, Len(toc)))])
    \o Flatten([j \in 1..Len(phys) |-> BuiltChunk(phys[j])])

\* the four chunks every well-formed hand-built file holds, in physical order:
\* a 1x1 image, a comment, a 2x1 image, a chunk of unknown type
Phys4 ==
    << [atype |-> IMAGE_TYPE,   frame |-> MkFrame(1, 1, 5)],
       [atype |-> COMMENT_TYPE, frame |-> MkFrame(1, 1, 6)],
       [atype |-> IMAGE_TYPE,   frame |-> MkFrame(2, 1, 7)],
       [atype |-> UNKNOWN_TAG,  frame |-> MkFrame(1, 1, 8)] >>
\* the table entries a hand-built file draws from
EntryKinds ==
    { [dtype |-> IMAGE_TYPE,   target |-> 1],
      [dtype |-> IMAGE_TYPE,   target |-> 3],
      [dtype |-> UNKNOWN_TAG,  target |-> 4],
      [dtype |-> COMMENT_TYPE, target |-> 1],
      [dtype |-> COMMENT_TYPE, target |-> 2],
      [dtype |-> IMAGE_TYPE,   target |-> 2],
      [dtype |-> IMAGE_TYPE,   target |-> 4],
      [dtype |-> UNKNOWN_TAG,  target |-> 1],
      [dtype |-> COMMENT_TYPE, target |-> 4] }
Tocs == UNION { [1..n -> EntryKinds] : n \in 0..MaxToc }
\* input records: what the caller hands to save_xcursor or to open_xcursor
Input(kind, cursor, toc, phys, bytes) ==
    [kind |-> kind, cursor |-> cursor, toc |-> toc, phys |-> phys, bytes |-> bytes]
SaveInputs == { Input("save", c, <<>>, <<>>, <<>>) : c \in SaveCursors }
BuiltInputs == { Input("built", CursorDefault, t, Phys4, BuiltFile(t, Phys4)) : t \in Tocs }
\* files cut short: two image chunks, listed in physical and in reverse order
Phys2 ==
    << [atype |-> IMAGE_TYPE, frame |-> MkFrame(1, 1, 5)],
       [atype |-> IMAGE_TYPE, frame |-> MkFrame(2, 1, 7)] >>
CutTocs ==
    { << [dtype |-> IMAGE_TYPE, target |-> 1], [dtype |-> IMAGE_TYPE, target |-> 2] >>,
      << [dtype |-> IMAGE_TYPE, target |-> 2], [dtype |-> IMAGE_TYPE, target |-> 1] >> }
CutInputs ==
    { Input("cut", CursorDefault, t, Phys2, SubSeq(BuiltFile(t, Phys2), 1, n)) :
        t \in CutTocs, n \in 0..(Len(BuiltFile(<<>>, Phys2)) + 23) }
\* files whose first four bytes are not b'Xcur': b'Ycur', b'Xcus', b'xcur'
BadMagics == { <<89, 99, 117, 114>>, <<88, 99, 117, 115>>, <<120, 99, 117, 114>> }
MagicTocs == { <<>>, << [dtype |-> IMAGE_TYPE, target |-> 1] >> }
MagicInputs ==
    { Input("magic", CursorDefault, t, Phys2,
            m \o SubSeq(BuiltFile(t, Phys2), 5, Len(BuiltFile(t, Phys2)))) :
        t \in MagicTocs, m \in BadMagics }
Inputs == SaveInputs \cup BuiltInputs \cup CutInputs \cup MagicInputs

\* ------------------------------------------------------------------- state
VARIABLES
    inp,            \* the input of the call (never changes)
    byPath,         \* isinstance(file, str): the codec opened the handle itself
    closed,         \* the handle is closed
    pc,             \* position in save_xcursor / open_xcursor
    f,              \* the stream: [data, pos]
    toc_pointer,    \* save_xcursor: where the next table entry goes
    i,              \* loop index (frames written, table entries read, chunks read)
    n_entry,        \* open_xcursor: the header's entry count
    chunks,         \* open_xcursor: the (chunk_type, chunk_position) pairs kept
    cursor_frames,  \* open_xcursor: the frames read so far
    outcome,        \* "none" while running, "ok", or the exception raised
    result          \* what open_xcursor returned

vars == <<inp, byPath, closed, pc, f, toc_pointer, i, n_entry, chunks,
          cursor_frames, outcome, result>>

\* xcursor.py:21-24 and 133-136: a path is opened afresh, a handle is used as it
\* is; every stream starts at position 0, a written one empty
Init ==
    /\ inp \in Inputs
    /\ byPath \in BOOLEAN
    /\ closed = FALSE
    /\ pc = IF inp.kind = "save" THEN "save_start" ELSE "open_magic"
    /\ f = [data |-> inp.bytes, pos |-> 0]
    /\ toc_pointer = 0
    /\ i = 0
    /\ n_entry = 0
    /\ chunks = <<>>
    /\ cursor_frames = <<>>
    /\ outcome = "none"
    /\ result = NoCursor

\* Leaving the function drops its reference to a handle it opened itself; no
\* exit path calls close(), so whether that handle is closed by then is up to
\* the interpreter's finalisation.  A handle the caller passed stays open.
HandleAtExit == IF byPath THEN closed' \in BOOLEAN ELSE closed' = closed

\* ---------------------------------------------------------- save_xcursor
\* xcursor.py:141-145
FileHeader(n) == Pack32(FileHeaderSize) \o <<0, 0, 1, 0>> \o Pack32(n)
\* xcursor.py:158-161
TocEntryAfterSeek(frame, chunk_start) ==
    PackU(IMAGE_TYPE) \o Pack32(frame.image.width) \o Pack32(toc_pointer)
TocEntry(frame, chunk_start) ==
    PackU(IMAGE_TYPE) \o Pack32(frame.image.width) \o Pack32(chunk_start)
\* xcursor.py:166-179
ChunkHeader(frame) ==
    Pack32(ChunkHeaderSize) \o PackU(IMAGE_TYPE) \o Pack32(frame.image.width)
    \o Pack32(ChunkVersion)
    \o Pack32(frame.image.width) \o Pack32(frame.image.height)
    \o Pack32(frame.hot_spot[1]) \o Pack32(frame.hot_spot[2])
    \o Pack32(frame.duration)
\* xcursor.py:183-192
PixelBytes(frame) == ToBytes(SwapChannels(AsArray(frame.image)))

\* xcursor.py:139-145: the magic goes out first; len(None) raises TypeError
SaveStart ==
    /\ pc = "save_start"
    /\ LET f1 == Write(f, MAGIC)
       IN IF inp.cursor.none
          THEN /\ f' = f1
               /\ outcome' = "TypeError"
               /\ pc' = "raise"
          ELSE /\ f' = Write(f1, FileHeader(Len(inp.cursor.frames)))
               /\ outcome' = outcome
               /\ pc' = "save_spacer"
    /\ UNCHANGED <<inp, byPath, closed, toc_pointer, i, n_entry, chunks,
                   cursor_frames, result>>

\* xcursor.py:149-151
SaveSpacer ==
    /\ pc = "save_spacer"
    /\ toc_pointer' = f.pos
    /\ f' = Write(f, Zeros(Len(inp.cursor.frames) * TocEntrySize))
    /\ i' = 0
    /\ pc' = IF Len(inp.cursor.frames) = 0 THEN "save_end" ELSE "save_toc"
    /\ UNCHANGED <<inp, byPath, closed, n_entry, chunks, cursor_frames, outcome, result>>

\* xcursor.py:156-163: backpatch the table entry of frame i
SaveToc ==
    /\ pc = "save_toc"
    /\ LET chunk_start == f.pos
           f2 == Write(Seek(f, toc_pointer), TocEntry(inp.cursor.frames[i + 1], chunk_start))
       IN /\ toc_pointer' = f2.pos
          /\ f' = Seek(f2, chunk_start)
    /\ pc' = "save_chunk"
    /\ UNCHANGED <<inp, byPath, closed, i, n_entry, chunks, cursor_frames, outcome, result>>

\* xcursor.py:165-193: the chunk header and the pixel data of frame i
SaveChunk ==
    /\ pc = "save_chunk"
    /\ f' = Write(Write(f, ChunkHeader(inp.cursor.frames[i + 1])),
                  PixelBytes(inp.cursor.frames[i + 1]))
    /\ i' = i + 1
    /\ pc' = IF i + 1 = Len(inp.cursor.frames) THEN "save_end" ELSE "save_toc"
    /\ UNCHANGED <<inp, byPath, closed, toc_pointer, n_entry, chunks, cursor_frames,
                   outcome, result>>

\* xcursor.py:193-196: the loop is over and the function returns None
SaveReturn ==
    /\ pc = "save_end"
    /\ pc' = "saved"
    /\ outcome' = "ok"
    /\ HandleAtExit
    /\ UNCHANGED <<inp, byPath, f, toc_pointer, i, n_entry, chunks, cursor_frames, result>>

\* an exception leaves the function (either one)
Raise ==
    /\ pc = "raise"
    /\ pc' = "failed"
    /\ HandleAtExit
    /\ UNCHANGED <<inp, byPath, f, toc_pointer, i, n_entry, chunks, cursor_frames,
                   outcome, result>>

\* the caller reads back what save_xcursor wrote: open_xcursor on the same
\* path, or on a fresh handle over the written bytes
Reopen ==
    /\ pc = "saved"
    /\ pc' = "open_magic"
    /\ f' = [data |-> f.data, pos |-> 0]
    /\ closed' = FALSE
    /\ outcome' = "none"
    /\ i' = 0
    /\ UNCHANGED <<inp, byPath, toc_pointer, n_entry, chunks, cursor_frames, result>>

\* ---------------------------------------------------------- open_xcursor
\* xcursor.py:56-64 and 83-92: the tag of a chunk type
ChunkTypeNameLax(u) == IF u = COMMENT_TYPE THEN "comment" ELSE "image"
ChunkTypeName(u) ==
    IF u = COMMENT_TYPE THEN "comment"
    ELSE IF u = IMAGE_TYPE THEN "image"
    ELSE "unknown"

\* xcursor.py:100 and 121: the branch taken goes by the type read from the chunk
TypeUsedDeclared(chunk_type, actual_type) == chunk_type
TypeUsed(chunk_type, actual_type) == actual_type

\* xcursor.py:79: each chunk is read from the offset its table entry gives
SeekChunkNone(s, chunk_position) == s
SeekChunk(s, chunk_position) == Seek(s, chunk_position)

\* xcursor.py:108-117: the frame image of w*h*4 stored bytes
DecodeImage(w, h, pixel_data) ==
    FromArray(SwapChannels(Reshape(FromBuffer(pixel_data), <<w, h, 4>>)))

\* xcursor.py:78-124: one pass of the chunk loop on stream s.  Gives the stream
\* afterwards, the exception raised ("none" if none) and the frames to append.
ReadChunk(s, chunk) ==
    LET s1 == SeekChunk(s, chunk.chunk_position)
        hb == ReadBytes(s1, 8)
        s2 == AfterRead(s1, 8)
    IN IF Len(hb) # 8
       THEN [f |-> s2, err |-> "struct.error", frames |-> <<>>]
       ELSE LET actual_type == ChunkTypeName(Field(hb, 2))
                used == TypeUsed(chunk.chunk_type, actual_type)
            IN IF actual_type = "unknown" \/ used # "image"
               THEN [f |-> s2, err |-> "none", frames |-> <<>>]
               ELSE LET b  == ReadBytes(s2, 28)
                        s3 == AfterRead(s2, 28)
                    IN IF Len(b) # 28
                       THEN [f |-> s3, err |-> "struct.error", frames |-> <<>>]
                       ELSE LET w == AsInt(Field(b, 3))
                                h == AsInt(Field(b, 4))
                                pixel_data == ReadBytes(s3, w * h * 4)
                                s4 == AfterRead(s3, w * h * 4)
                            IN IF ~CanReshape(FromBuffer(pixel_data), <<w, h, 4>>)
                               THEN [f |-> s4, err |-> "ValueError", frames |-> <<>>]
                               ELSE [f |-> s4, err |-> "none",
                                     frames |-> << CursorFrame(
                                         DecodeImage(w, h, pixel_data),
                                         <<AsInt(Field(b, 5)), AsInt(Field(b, 6))>>,
                                         AsInt(Field(b, 7))) >>]

\* xcursor.py:28-32: the magic is checked by an assert statement, which raises
\* AssertionError (carrying the IOError as its message) when the interpreter
\* runs assertions and is skipped when it does not (python -O)
OpenMagic ==
    /\ pc = "open_magic"
    /\ f' = AfterRead(f, 4)
    /\ \/ /\ ReadBytes(f, 4) = MAGIC
          /\ pc' = "open_header"
          /\ outcome' = outcome
       \/ /\ ReadBytes(f, 4) # MAGIC
          /\ pc' = "raise"
          /\ outcome' = "AssertionError"
       \/ /\ ReadBytes(f, 4) # MAGIC
          /\ pc' = "open_header"
          /\ outcome' = outcome
    /\ UNCHANGED <<inp, byPath, closed, toc_pointer, i, n_entry, chunks, cursor_frames,
                   result>>

\* xcursor.py:35-47: header size (unused), version bytes and entry count;
\* struct.unpack raises struct.error on a short read
OpenHeader ==
    /\ pc = "open_header"
    /\ LET b1 == ReadBytes(f, 4)
           s1 == AfterRead(f, 4)
           b2 == ReadBytes(s1, 8)
           s2 == AfterRead(s1, 8)
       IN IF Len(b1) # 4
          THEN /\ f' = s1 /\ outcome' = "struct.error" /\ pc' = "raise"
               /\ UNCHANGED n_entry
          ELSE IF Len(b2) # 8
          THEN /\ f' = s2 /\ outcome' = "struct.error" /\ pc' = "raise"
               /\ UNCHANGED n_entry
          ELSE /\ f' = s2
               /\ outcome' = outcome
               /\ n_entry' = AsInt(Field(b2, 2))
               /\ pc' = IF AsInt(Field(b2, 2)) = 0 THEN "open_return" ELSE "open_toc"
    /\ i' = 0
    /\ chunks' = <<>>
    /\ cursor_frames' = <<>>
    /\ UNCHANGED <<inp, byPath, closed, toc_pointer, result>>

\* xcursor.py:51-71: one table entry; an entry of unknown type is not kept
OpenToc ==
    /\ pc = "open_toc"
    /\ LET b == ReadBytes(f, TocEntrySize)
           chunk_type == ChunkTypeName(Field(b, 1))
           kept == IF chunk_type = "unknown" THEN chunks
                   ELSE Append(chunks, [chunk_type |-> chunk_type,
                                        chunk_position |-> AsInt(Field(b, 3))])
       IN /\ f' = AfterRead(f, TocEntrySize)
          /\ IF Len(b) # TocEntrySize
             THEN /\ outcome' = "struct.error" /\ pc' = "raise"
                  /\ UNCHANGED <<i, chunks>>
             ELSE /\ outcome' = outcome
                  /\ chunks' = kept
                  /\ IF i + 1 < n_entry
                     THEN /\ i' = i + 1 /\ pc' = "open_toc"
                     ELSE /\ i' = 0
                          /\ pc' = IF kept = <<>> THEN "open_return" ELSE "open_chunk"
    /\ UNCHANGED <<inp, byPath, closed, toc_pointer, n_entry, cursor_frames, result>>

\* xcursor.py:77-124: one kept chunk
OpenChunk ==
    /\ pc = "open_chunk"
    /\ LET r == ReadChunk(f, chunks[i + 1])
       IN /\ f' = r.f
          /\ IF r.err # "none"
             THEN /\ outcome' = r.err /\ pc' = "raise"
                  /\ UNCHANGED <<i, cursor_frames>>
             ELSE /\ outcome' = outcome
                  /\ cursor_frames' = cursor_frames \o r.frames
                  /\ i' = i + 1
                  /\ pc' = IF i + 1 < Len(chunks) THEN "open_chunk" ELSE "open_return"
    /\ UNCHANGED <<inp, byPath, closed, toc_pointer, n_entry, chunks, result>>

\* xcursor.py:128-129
OpenReturn ==
    /\ pc = "open_return"
    /\ result' = [returned |-> TRUE, frames |-> cursor_frames]
    /\ outcome' = "ok"
    /\ pc' = "done"
    /\ HandleAtExit
    /\ UNCHANGED <<inp, byPath, f, toc_pointer, i, n_entry, chunks, cursor_frames>>

Next ==
    \/ SaveStart \/ SaveSpacer \/ SaveToc \/ SaveChunk \/ SaveReturn \/ Reopen
    \/ OpenMagic \/ OpenHeader \/ OpenToc \/ OpenChunk \/ OpenReturn
    \/ Raise

Spec == Init /\ [][Next]_vars

\* ------------------------------------------------------------------ claims
\* where the claims expect chunk k (1-based) of a saved frame list to begin:
\* 16 + 12*n + the sizes 36 + 4*w*h of the chunks before it
RECURSIVE ExpectedOffset(_, _)
ExpectedOffset(frames, k) ==
    IF k = 1 THEN 16 + 12 * Len(frames)
    ELSE ExpectedOffset(frames, k - 1) + 36
         + 4 * frames[k - 1].image.width * frames[k - 1].image.height
ExpectedLength(frames) == ExpectedOffset(frames, Len(frames) + 1)
PixelAt(img, x, y) == img.px[y * img.width + x + 1]
Saving == inp.kind = "save"
Exited == pc \in {"saved", "done", "failed"}

\* C1: open_xcursor of what save_xcursor wrote returns as many frames, in the
\* same order, each with the width, height, hotspot, duration and the RGBA
\* sample at every (x, y) of the frame that was saved, non-square frames
\* included.
C1_RoundTrip ==
    (Saving /\ pc = "done") =>
        /\ result.returned
        /\ Len(result.frames) = Len(inp.cursor.frames)
        /\ \A k \in 1..Len(inp.cursor.frames) :
             LET a == inp.cursor.frames[k]
                 b == result.frames[k]
             IN /\ b.image.width = a.image.width
                /\ b.image.height = a.image.height
                /\ b.hot_spot = a.hot_spot
                /\ b.duration = a.duration
                /\ \A x \in 0..(a.image.width - 1), y \in 0..(a.image.height - 1) :
                     PixelAt(b.image, x, y) = PixelAt(a.image, x, y)

\* C2: once save_xcursor has written n frames, the table entry at 16 + 12*i
\* holds (0xfffd0002, width_i, p_i) with p_i = 16 + 12*n + sum over j < i of
\* (36 + 4*w_j*h_j), the 36-byte chunk header of frame i begins at p_i, the
\* output is 16 + 12*n + sum of (36 + 4*w_j*h_j) bytes long, and a backpatch
\* write changes no byte outside [16, 16 + 12*n) and does not extend the stream.
C2_LayoutAtEnd ==
    (Saving /\ pc = "saved") =>
        LET fr == inp.cursor.frames
        IN /\ Len(f.data) = ExpectedLength(fr)
           /\ \A k \in 1..Len(fr) :
                LET p == ExpectedOffset(fr, k)
                IN /\ SubSeq(f.data, 16 + 12 * (k - 1) + 1, 16 + 12 * k)
                        = <<2, 0, 253, 255>> \o Pack32(fr[k].image.width) \o Pack32(p)
                   /\ SubSeq(f.data, p + 1, p + 36)
                        = Pack32(36) \o <<2, 0, 253, 255>> \o Pack32(fr[k].image.width)
                          \o Pack32(1) \o Pack32(fr[k].image.width)
                          \o Pack32(fr[k].image.height) \o Pack32(fr[k].hot_spot[1])
                          \o Pack32(fr[k].hot_spot[2]) \o Pack32(fr[k].duration)
C2_BackpatchStep ==
    pc = "save_toc" =>
        /\ Len(f'.data) = Len(f.data)
        /\ \A k \in 1..Len(f.data) :
             (k <= 16 \/ k > 16 + 12 * Len(inp.cursor.frames)) => f'.data[k] = f.data[k]
C2_EncoderLayout == [](C2_LayoutAtEnd) /\ [][C2_BackpatchStep]_vars
C2_Witness ==
    /\ Saving /\ pc = "saved" /\ Len(inp.cursor.frames) = 2
    /\ inp.cursor.frames[1].image.width # inp.cursor.frames[2].image.width
    /\ inp.cursor.frames[1].image.height = 2

\* C3: a stream whose first 4 bytes are not b'Xcur' (shorter streams included)
\* makes open_xcursor fail with FormatError, return no Cursor, and read no
\* field beyond the magic.
BadMagicInput == ~Saving /\ SubSeq(inp.bytes, 1, Min(4, Len(inp.bytes))) # MAGIC
C3_MagicRejection ==
    BadMagicInput =>
        /\ pc \in {"open_magic", "raise", "failed"}
        /\ f.pos <= 4
        /\ ~result.returned
        /\ (pc = "failed" => outcome = "FormatError")

\* C4 as stated: a stream with valid magic that ends before a required field or
\* before the whole pixel payload makes open_xcursor fail with FormatError and
\* return no Cursor.
CutInput == inp.kind = "cut" /\ Len(inp.bytes) >= 4
RECURSIVE CutError(_, _, _, _)
CutError(toc, phys, cut, k) ==
    LET start == BuiltOffset(phys, toc[k].target, Len(toc))
        size  == 36 + 4 * phys[toc[k].target].frame.image.width
                        * phys[toc[k].target].frame.image.height
    IN IF cut >= start + size THEN CutError(toc, phys, cut, k + 1)
       ELSE IF cut >= start + 36 THEN "ValueError" ELSE "struct.error"
ExpectedCutError(in) ==
    IF Len(in.bytes) < 16 + 12 * Len(in.toc) THEN "struct.error"
    ELSE CutError(in.toc, in.phys, Len(in.bytes), 1)
SameChunk(fr, c) ==
    /\ fr.hot_spot = c.frame.hot_spot
    /\ fr.duration = c.frame.duration
    /\ Flatten(fr.image.px) = Flatten(c.frame.image.px)
ActualType(in, e) == in.phys[e.target].atype
IsImageEntry(e) == e.dtype = IMAGE_TYPE
ImageEntries(toc) == SelectSeq(toc, IsImageEntry)
FramesAre(frames, in, entries) ==
    /\ Len(frames) = Len(entries)
    /\ \A k \in 1..Len(entries) : SameChunk(frames[k], in.phys[entries[k].target])

\* C5: a well-formed file whose table mixes entries of unknown type among
\* valid Image entries decodes without failure to exactly one frame per Image
\* entry, in table order.
C5_Pre ==
    /\ inp.kind = "built"
    /\ \A k \in 1..Len(inp.toc) :
         \/ inp.toc[k].dtype = IMAGE_TYPE /\ ActualType(inp, inp.toc[k]) = IMAGE_TYPE
         \/ inp.toc[k].dtype \notin {IMAGE_TYPE, COMMENT_TYPE}
    /\ \E k \in 1..Len(inp.toc) : inp.toc[k].dtype \notin {IMAGE_TYPE, COMMENT_TYPE}
C5_UnknownTolerance ==
    C5_Pre =>
        /\ pc \notin {"raise", "failed"}
        /\ outcome \in {"none", "ok"}
        /\ (pc = "done" =>
              /\ result.returned
              /\ FramesAre(result.frames, inp, ImageEntries(inp.toc)))
C5_Witness ==
    /\ C5_Pre /\ pc = "done" /\ Len(inp.toc) = 3
    /\ inp.toc[1].dtype = IMAGE_TYPE /\ inp.toc[2].dtype = UNKNOWN_TAG
    /\ inp.toc[3].dtype = IMAGE_TYPE /\ inp.toc[3].target # inp.toc[1].target
    /\ Len(result.frames) = 2

\* C6: in a well-formed file the k-th frame returned is the image chunk that
\* the k-th Image table entry points at, whatever the order of the offsets.
C6_Pre ==
    /\ inp.kind = "built"
    /\ \A k \in 1..Len(inp.toc) :
         /\ inp.toc[k].dtype = IMAGE_TYPE => ActualType(inp, inp.toc[k]) = IMAGE_TYPE
         /\ inp.toc[k].dtype = COMMENT_TYPE => ActualType(inp, inp.toc[k]) = COMMENT_TYPE
C6_OffsetIndependence ==
    (C6_Pre /\ pc = "done") => FramesAre(result.frames, inp, ImageEntries(inp.toc))
C6_Witness ==
    /\ C6_Pre /\ pc = "done" /\ Len(inp.toc) = 2
    /\ inp.toc[1] = [dtype |-> IMAGE_TYPE, target |-> 3]
    /\ inp.toc[2] = [dtype |-> IMAGE_TYPE, target |-> 1]
    /\ Len(result.frames) = 2

\* C7: the payload of frame k, at chunk offset + 36, holds for the pixel at
\* (x, y) the four bytes (B, G, R, A) of its RGBA sample at 4*(y*width + x); the
\* 2x1 frame RGBA(10,20,30,255), RGBA(1,2,3,4) is written as 30,20,10,255,3,2,1,4.
C7_ChannelOrder ==
    (Saving /\ pc = "saved") =>
        LET fr == inp.cursor.frames
        IN /\ \A k \in 1..Len(fr) :
                \A x \in 0..(fr[k].image.width - 1), y \in 0..(fr[k].image.height - 1) :
                  LET at == ExpectedOffset(fr, k) + 36 + 4 * (y * fr[k].image.width + x)
                      s  == PixelAt(fr[k].image, x, y)
                  IN SubSeq(f.data, at + 1, at + 4) = <<s[3], s[2], s[1], s[4]>>
           /\ fr = <<ExampleFrame>> =>
                SubSeq(f.data, 65, 72) = <<30, 20, 10, 255, 3, 2, 1, 4>>
C7_Witness ==
    Saving /\ pc = "saved" /\ ~inp.cursor.none /\ inp.cursor.frames = <<ExampleFrame>>
       /\ Len(f.data) = 72

\* C8: save_xcursor of a Cursor with zero frames, the default-constructed
\* Cursor included, succeeds and writes exactly the 16-byte header with
\* n_entry = 0, and open_xcursor of that returns a Cursor with zero frames.
EmptyCursorInput == Saving /\ (inp.cursor.none \/ inp.cursor.frames = <<>>)
C8_EmptyCursor ==
    EmptyCursorInput =>
        /\ pc \notin {"raise", "failed"}
        /\ (pc = "saved" =>
              f.data = <<88, 99, 117, 114, 16, 0, 0, 0, 0, 0, 1, 0, 0, 0, 0, 0>>)
        /\ (pc = "done" => result.returned /\ result.frames = <<>>)

\* C9: when open_xcursor or save_xcursor ends, normally or by an exception, the
\* handle is closed if and only if the codec opened it from a path.
C9_ResourceDiscipline == Exited => (closed <=> byPath)

\* C10: for a table entry declared Comment or Image the type in the chunk's
\* own header decides: a frame is appended exactly when that type is Image,
\* nothing past the 8-byte header is read when it is Comment or unknown, and
\* a disagreement with the declared type never makes open_xcursor fail.
C10_Pre ==
    /\ inp.kind = "built"
    /\ \A k \in 1..Len(inp.toc) : inp.toc[k].dtype \in {IMAGE_TYPE, COMMENT_TYPE}
IsActualImage(e) == Phys4[e.target].atype = IMAGE_TYPE
C10_ActualTypeWins ==
    C10_Pre =>
        /\ pc \notin {"raise", "failed"}
        /\ pc \in {"open_chunk", "open_return", "done"} =>
             /\ FramesAre(cursor_frames, inp, SelectSeq(SubSeq(inp.toc, 1, i), IsActualImage))
             /\ (i >= 1 /\ ~IsActualImage(inp.toc[i])) =>
                   f.pos = BuiltOffset(inp.phys, inp.toc[i].target, Len(inp.toc)) + 8
             /\ (i >= 1 /\ IsActualImage(inp.toc[i])) =>
                   f.pos = BuiltOffset(inp.phys, inp.toc[i].target, Len(inp.toc)) + 36
                           + Len(BgraBytes(inp.phys[inp.toc[i].target].frame.image))
C10_Witness ==
    /\ C10_Pre /\ pc = "done" /\ Len(inp.toc) = 3
    /\ inp.toc[1] = [dtype |-> COMMENT_TYPE, target |-> 1]
    /\ inp.toc[2] = [dtype |-> IMAGE_TYPE, target |-> 2]
    /\ inp.toc[3] = [dtype |-> IMAGE_TYPE, target |-> 4]
    /\ Len(result.frames) = 1
====
